---- MODULE Spec2Model ----
(***************************************************************************)
(* Model of src/basicTools.py: the four Kubernetes actions                 *)
(*   list_pods_in_namespace, list_deployments_in_namespace,                *)
(*   rollout_restart_deployment, get_deployment_logs                       *)
(* run by concurrent callers (the agent's tool calls of src/agentDraft1.py)*)
(* against one cluster.  Every cluster call is one step of its caller; the *)
(* patch call is split in two (issued / answered) so that calls in flight  *)
(* are visible.  The cluster is an environment: each call is answered      *)
(* "ok", with an ApiException (status 404 or another status) or with any   *)
(* other Exception.                                                        *)
(*                                                                         *)
(* Python values: None is <<>> and an int n is <<n>> wherever the code     *)
(* handles Optional[int]; a dict is a function; a list is a sequence.      *)
(***************************************************************************)
EXTENDS Integers, Sequences, FiniteSets, TLC

VARIABLES
    kubeconfig,        \* os.path.isfile(KUBECONFIG_PATH)
    patchFailuresLeft, \* transient failures the cluster still answers to the
                       \* patches of each caller's current call
    pc,                \* each caller's position in its action
    req,               \* each caller's current call: action and arguments
    result,            \* the value returned by the caller's last call
    printed,           \* what the call printed to the console
    nReturned,         \* how many values the current call has returned
    reads,             \* read_namespaced_deployment calls of the current call
    patches,           \* patch_namespaced_deployment calls of the current call
    podLists,          \* list_namespaced_pod calls of the current call
    logCalls,          \* read_namespaced_pod_log calls of the current call
    readOutcome,       \* the cluster's answer to the call's deployment read
    patchOutcomes,     \* the cluster's answers to the call's patch calls
    listOutcome,       \* the cluster's answer to the call's pod list
    todo,              \* get_deployment_logs: pods.items not yet visited
    since_seconds,     \* get_deployment_logs: the local since_seconds
    logs_dict,         \* get_deployment_logs: the local logs_dict
    fetched,           \* the cluster's answer to each pod's log fetch
    concurrentAtStart, \* another call for the same target was running at entry
    afterSuccess,      \* at entry, a restart of the target had returned success
    argv               \* sys.argv of a caller that is the __main__ block, else <<>>

vars == <<kubeconfig, patchFailuresLeft, pc, req,
          result, printed, nReturned, reads, patches, podLists, logCalls,
          readOutcome, patchOutcomes, listOutcome, todo, since_seconds,
          logs_dict, fetched, concurrentAtStart, afterSuccess, argv>>

callVars == <<pc, result, printed, nReturned>>
counters == <<reads, patches, podLists, logCalls>>
cluster == <<kubeconfig, patchFailuresLeft>>
logVars == <<todo, since_seconds, logs_dict, fetched>>
history == <<concurrentAtStart, afterSuccess, argv>>
answers == <<readOutcome, patchOutcomes, listOutcome>>

----------------------------------------------------------------------------
(* Bounds and input sets *)

MaxFail == 2

Callers == {"c1", "c2"}
Namespaces == {"default"}
Deployments == {"web", "db"}
\* the pod lists the cluster answers (pods.items, in the cluster's order)
PodLists == {<<>>, <<"podA">>, <<"podA", "podB", "podC">>}

None == <<>>
Some(n) == <<n>>

\* (hours, tail_lines) of a log request: the defaults, and negative values
LogArgs == {<<1, None>>, <<-1, None>>, <<1, Some(-1)>>}
LogTexts == {"", "log line"}

\* answers of a cluster call
NotFoundStatus == 404
Outcomes == {"ok", "api404", "api500", "other"}
IsApiException(o) == o \in {"api404", "api500"}
\* e.status of an ApiException: 404, or any other status (500 stands for them)
Status(o) == IF o = "api404" THEN NotFoundStatus ELSE 500

SecondsPerHour == 3600

----------------------------------------------------------------------------
(* Messages *)

KubeconfigMsg == "Kubeconfig file not found"
RestartedMsg == "rollout restart initiated"
NotFoundMsg == "Deployment not found in namespace"
ApiErrorMsg == "API Error"
ErrorMsg == "Error"
NoPodsMsg == "No pods found for deployment"
RetrievedMsg == "Retrieved logs"
NamespaceMsg == "Error: Namespace not found"
\* variant: the error text of a failed fetch is dropped
LogErrorDropped == ""
\* f"Error retrieving logs: {e}"
LogErrorText == "Error retrieving logs: ApiException"
\* the message of a coordinator that rejects a second request (not in the code)
ConflictMsg == "operation already in progress"

EmptyDict == [x \in {} |-> ""]
NoRequest == [action |-> "none", name |-> "", ns |-> "", hours |-> 1, tail |-> None]
NoResult == [none |-> TRUE]

Target(p) == <<req[p].ns, req[p].name>>

InProgress(p) == pc[p] \notin {"idle", "done", "escaped"}

----------------------------------------------------------------------------
(* Leaving a call *)

\* a return statement: the call ends with one value
Return(p, value, out) ==
    /\ pc' = [pc EXCEPT ![p] = "done"]
    /\ result' = [result EXCEPT ![p] = value]
    /\ printed' = [printed EXCEPT ![p] = out]
    /\ nReturned' = [nReturned EXCEPT ![p] = @ + 1]

\* an exception no handler catches leaves the function
Propagate(p) ==
    /\ pc' = [pc EXCEPT ![p] = "escaped"]
    /\ UNCHANGED <<result, printed, nReturned>>

Goto(p, label) ==
    /\ pc' = [pc EXCEPT ![p] = label]
    /\ UNCHANGED <<result, printed, nReturned>>

----------------------------------------------------------------------------
Init ==
    /\ kubeconfig \in BOOLEAN
    /\ patchFailuresLeft = [p \in Callers |-> 0]
    /\ pc = [p \in Callers |-> "idle"]
    /\ req = [p \in Callers |-> NoRequest]
    /\ result = [p \in Callers |-> NoResult]
    /\ printed = [p \in Callers |-> ""]
    /\ nReturned = [p \in Callers |-> 0]
    /\ reads = [p \in Callers |-> 0]
    /\ patches = [p \in Callers |-> 0]
    /\ podLists = [p \in Callers |-> 0]
    /\ logCalls = [p \in Callers |-> 0]
    /\ readOutcome = [p \in Callers |-> "none"]
    /\ patchOutcomes = [p \in Callers |-> <<>>]
    /\ listOutcome = [p \in Callers |-> "none"]
    /\ todo = [p \in Callers |-> <<>>]
    /\ since_seconds = [p \in Callers |-> 0]
    /\ logs_dict = [p \in Callers |-> EmptyDict]
    /\ fetched = [p \in Callers |-> EmptyDict]
    /\ concurrentAtStart = [p \in Callers |-> FALSE]
    /\ afterSuccess = [p \in Callers |-> FALSE]
    /\ argv = [p \in Callers |-> <<>>]

----------------------------------------------------------------------------
(* A caller invokes one of the four tools (src/agentDraft1.py binds them as *)
(* tools; each call runs on its own while other calls are in progress).    *)

Requests ==
    {[action |-> "list_pods", name |-> "", ns |-> ns, hours |-> 1, tail |-> None] :
        ns \in Namespaces}
    \cup
    {[action |-> "list_deployments", name |-> "", ns |-> ns, hours |-> 1, tail |-> None] :
        ns \in Namespaces}
    \cup
    {[action |-> "restart", name |-> n, ns |-> ns, hours |-> 1, tail |-> None] :
        n \in Deployments, ns \in Namespaces}
    \cup
    {[action |-> "logs", name |-> "web", ns |-> ns, hours |-> a[1], tail |-> a[2]] :
        ns \in Namespaces, a \in LogArgs}

Invoke(p) ==
    /\ pc[p] \in {"idle", "done"}
    /\ \E r \in Requests :
        /\ req' = [req EXCEPT ![p] = r]
        /\ concurrentAtStart' = [concurrentAtStart EXCEPT ![p] =
              /\ r.action = "restart"
              /\ \E q \in Callers \ {p} :
                    InProgress(q) /\ req[q].action = "restart"
                    /\ Target(q) = <<r.ns, r.name>>]
        /\ afterSuccess' = [afterSuccess EXCEPT ![p] =
              /\ r.action = "restart"
              /\ \E q \in Callers :
                    /\ pc[q] = "done" /\ req[q].action = "restart"
                    /\ Target(q) = <<r.ns, r.name>>
                    /\ result[q].success]
        /\ \E k \in (IF r.action = "restart" THEN 0..MaxFail ELSE {0}) :
              patchFailuresLeft' = [patchFailuresLeft EXCEPT ![p] = k]
    /\ pc' = [pc EXCEPT ![p] = "config"]
    /\ result' = [result EXCEPT ![p] = NoResult]
    /\ printed' = [printed EXCEPT ![p] = ""]
    /\ nReturned' = [nReturned EXCEPT ![p] = 0]
    /\ reads' = [reads EXCEPT ![p] = 0]
    /\ patches' = [patches EXCEPT ![p] = 0]
    /\ podLists' = [podLists EXCEPT ![p] = 0]
    /\ logCalls' = [logCalls EXCEPT ![p] = 0]
    /\ readOutcome' = [readOutcome EXCEPT ![p] = "none"]
    /\ patchOutcomes' = [patchOutcomes EXCEPT ![p] = <<>>]
    /\ listOutcome' = [listOutcome EXCEPT ![p] = "none"]
    /\ todo' = [todo EXCEPT ![p] = <<>>]
    /\ since_seconds' = [since_seconds EXCEPT ![p] = 0]
    /\ logs_dict' = [logs_dict EXCEPT ![p] = EmptyDict]
    /\ fetched' = [fetched EXCEPT ![p] = EmptyDict]
    /\ UNCHANGED <<kubeconfig, argv>>

----------------------------------------------------------------------------
(* rollout_restart_deployment *)

RestartResult(p, ok, msg) ==
    [success |-> ok, message |-> msg,
     deployment_name |-> req[p].name, namespace |-> req[p].ns]

\* except Exception as e (the outer handler)
RestartOnException(p) ==
    Return(p, RestartResult(p, FALSE, ErrorMsg), "")

\* variant: a transient patch failure is retried, up to 3 attempts
RestartOnApiExceptionRetrying(p, o) ==
    IF pc[p] = "patching" /\ Status(o) # NotFoundStatus /\ patches[p] < 3
    THEN Goto(p, "patch")
    ELSE IF Status(o) = NotFoundStatus
         THEN Return(p, RestartResult(p, FALSE, NotFoundMsg), "")
         ELSE Return(p, RestartResult(p, FALSE, ApiErrorMsg), "")

\* except client.rest.ApiException as e
RestartOnApiException(p, o) ==
    IF Status(o) = NotFoundStatus
    THEN Return(p, RestartResult(p, FALSE, NotFoundMsg), "")
    ELSE Return(p, RestartResult(p, FALSE, ApiErrorMsg), "")

\* variant: a deployment whose restart has succeeded is not restarted again
RestartConfigOnce(p) ==
    /\ pc[p] = "config" /\ req[p].action = "restart"
    /\ IF afterSuccess[p]
       THEN Return(p, RestartResult(p, TRUE, RestartedMsg), "")
       ELSE IF ~kubeconfig
            THEN Return(p, RestartResult(p, FALSE, KubeconfigMsg), "")
            ELSE \E loaded \in BOOLEAN :
                     IF loaded THEN Goto(p, "read") ELSE RestartOnException(p)
    /\ UNCHANGED <<cluster, req, counters, answers, logVars, history>>

\* variant: a request that finds another one running for its target is rejected
RestartConfigGuarded(p) ==
    /\ pc[p] = "config" /\ req[p].action = "restart"
    /\ IF concurrentAtStart[p]
       THEN Return(p, RestartResult(p, FALSE, ConflictMsg), "")
       ELSE IF ~kubeconfig
            THEN Return(p, RestartResult(p, FALSE, KubeconfigMsg), "")
            ELSE \E loaded \in BOOLEAN :
                     IF loaded THEN Goto(p, "read") ELSE RestartOnException(p)
    /\ UNCHANGED <<cluster, req, counters, answers, logVars, history>>

\* the kubeconfig check and config.load_kube_config
RestartConfig(p) ==
    /\ pc[p] = "config" /\ req[p].action = "restart"
    /\ IF ~kubeconfig
       THEN Return(p, RestartResult(p, FALSE, KubeconfigMsg), "")
       ELSE \E loaded \in BOOLEAN :
                IF loaded THEN Goto(p, "read") ELSE RestartOnException(p)
    /\ UNCHANGED <<cluster, req, counters, answers, logVars, history>>

\* variant: the patch is issued whatever the read answers
RestartReadUnchecked(p) ==
    /\ pc[p] = "read" /\ req[p].action = "restart"
    /\ reads' = [reads EXCEPT ![p] = @ + 1]
    /\ \E o \in Outcomes :
        /\ readOutcome' = [readOutcome EXCEPT ![p] = o]
        /\ CASE o = "ok" -> Goto(p, "patch")
             [] o = "api404" -> Goto(p, "patch")
             [] IsApiException(o) -> RestartOnApiException(p, o)
             [] OTHER -> RestartOnException(p)
    /\ UNCHANGED <<cluster, req, patches, podLists, logCalls,
                   patchOutcomes, listOutcome, logVars, history>>

\* apps_v1.read_namespaced_deployment: verify the deployment exists
RestartRead(p) ==
    /\ pc[p] = "read" /\ req[p].action = "restart"
    /\ reads' = [reads EXCEPT ![p] = @ + 1]
    /\ \E o \in Outcomes :
        /\ readOutcome' = [readOutcome EXCEPT ![p] = o]
        /\ CASE o = "ok" -> Goto(p, "patch")
             [] IsApiException(o) -> RestartOnApiException(p, o)
             [] OTHER -> RestartOnException(p)
    /\ UNCHANGED <<cluster, req, patches, podLists, logCalls,
                   patchOutcomes, listOutcome, logVars, history>>

\* apps_v1.patch_namespaced_deployment is called: the patch is in flight
RestartPatchIssue(p) ==
    /\ pc[p] = "patch" /\ req[p].action = "restart"
    /\ patches' = [patches EXCEPT ![p] = @ + 1]
    /\ Goto(p, "patching")
    /\ UNCHANGED <<cluster, req, reads, podLists, logCalls, answers,
                   logVars, history>>

\* the cluster's answers to a patch: a transient failure while it has some
\* left to give, then an acknowledgement, a 404 or another exception
PatchAnswers(p) ==
    IF patchFailuresLeft[p] > 0 THEN {"api500"} ELSE {"ok", "api404", "other"}

\* the patch call returns or raises
RestartPatchAnswer(p) ==
    /\ pc[p] = "patching" /\ req[p].action = "restart"
    /\ \E o \in PatchAnswers(p) :
        /\ patchOutcomes' = [patchOutcomes EXCEPT ![p] = Append(@, o)]
        /\ patchFailuresLeft' = [patchFailuresLeft EXCEPT ![p] =
              IF @ > 0 THEN @ - 1 ELSE @]
        /\ CASE o = "ok" ->
                  Return(p, RestartResult(p, TRUE, RestartedMsg), "")
             [] IsApiException(o) -> RestartOnApiException(p, o)
             [] OTHER -> RestartOnException(p)
    /\ UNCHANGED <<kubeconfig, req, counters, readOutcome, listOutcome,
                   logVars, history>>

----------------------------------------------------------------------------
(* get_deployment_logs *)

LogsResult(p, ok, msg, logs) ==
    [success |-> ok, message |-> msg, logs |-> logs,
     deployment_name |-> req[p].name, namespace |-> req[p].ns]

\* variant: the outer handler returns what the loop had collected
LogsOnExceptionPartial(p) ==
    Return(p, LogsResult(p, FALSE, ErrorMsg, logs_dict[p]), "")

\* except Exception as e (the outer handler)
LogsOnException(p) ==
    Return(p, LogsResult(p, FALSE, ErrorMsg, EmptyDict), "")

\* except client.rest.ApiException as e (around the read and the pod list)
LogsOnApiException(p, o) ==
    IF Status(o) = NotFoundStatus
    THEN Return(p, LogsResult(p, FALSE, NotFoundMsg, EmptyDict), "")
    ELSE Return(p, LogsResult(p, FALSE, ApiErrorMsg, EmptyDict), "")

\* the kubeconfig check and config.load_kube_config
LogsConfig(p) ==
    /\ pc[p] = "config" /\ req[p].action = "logs"
    /\ IF ~kubeconfig
       THEN Return(p, LogsResult(p, FALSE, KubeconfigMsg, EmptyDict), "")
       ELSE \E loaded \in BOOLEAN :
                IF loaded THEN Goto(p, "read") ELSE LogsOnException(p)
    /\ UNCHANGED <<cluster, req, counters, answers, logVars, history>>

\* apps_v1.read_namespaced_deployment and the label selector built from it
\* ("other" includes a deployment whose selector has no match_labels)
LogsRead(p) ==
    /\ pc[p] = "read" /\ req[p].action = "logs"
    /\ reads' = [reads EXCEPT ![p] = @ + 1]
    /\ \E o \in Outcomes :
        /\ readOutcome' = [readOutcome EXCEPT ![p] = o]
        /\ CASE o = "ok" -> Goto(p, "listpods")
             [] IsApiException(o) -> LogsOnApiException(p, o)
             [] OTHER -> LogsOnException(p)
    /\ UNCHANGED <<cluster, req, patches, podLists, logCalls,
                   patchOutcomes, listOutcome, logVars, history>>

\* since_seconds = int(hours * 3600)
SinceSeconds(hours) == hours * SecondsPerHour

\* variant: an empty pod list is answered like any other, with an empty bundle
LogsNoPodsAsSuccess(p) ==
    Return(p, LogsResult(p, TRUE, RetrievedMsg, EmptyDict), "")

\* the value returned when pods.items is empty
LogsNoPods(p) ==
    Return(p, LogsResult(p, FALSE, NoPodsMsg, EmptyDict), "")

\* hours is a str: the __main__ block passes its namespace argument as the
\* third positional argument of get_deployment_logs, which is hours
HoursIsStr(p) == argv[p] # <<>>

\* core_v1.list_namespaced_pod, the empty check, since_seconds
\* (int(hours * 3600) of a str that is not a number raises ValueError)
LogsListPods(p) ==
    /\ pc[p] = "listpods" /\ req[p].action = "logs"
    /\ podLists' = [podLists EXCEPT ![p] = @ + 1]
    /\ \E o \in Outcomes :
        /\ listOutcome' = [listOutcome EXCEPT ![p] = o]
        /\ CASE o = "ok" ->
               \E items \in PodLists :
                   IF items = <<>>
                   THEN LogsNoPods(p) /\ UNCHANGED <<todo, since_seconds>>
                   ELSE IF HoursIsStr(p)
                   THEN LogsOnException(p) /\ UNCHANGED <<todo, since_seconds>>
                   ELSE /\ todo' = [todo EXCEPT ![p] = items]
                        /\ since_seconds' = [since_seconds EXCEPT ![p] =
                               SinceSeconds(req[p].hours)]
                        /\ Goto(p, "fetch")
          [] IsApiException(o) ->
               LogsOnApiException(p, o) /\ UNCHANGED <<todo, since_seconds>>
          [] OTHER ->
               LogsOnException(p) /\ UNCHANGED <<todo, since_seconds>>
    /\ UNCHANGED <<cluster, req, reads, patches, logCalls,
                   readOutcome, patchOutcomes, logs_dict, fetched, history>>

Put(dict, k, v) == [x \in DOMAIN dict \cup {k} |-> IF x = k THEN v ELSE dict[x]]

\* answers of core_v1.read_namespaced_pod_log
FetchOutcomes == {"ok", "api500", "other"}

\* variant: no handler for what the per-pod handler does not catch
LogsFetchUncaught(p) == Propagate(p)

\* what the loop does with a pod whose fetch raised a non-API exception:
\* nothing catches it inside the loop, so it reaches the outer handler
LogsFetchOnException(p) == LogsOnException(p)

\* one iteration of: for pod in pods.items
LogsFetch(p) ==
    /\ pc[p] = "fetch" /\ req[p].action = "logs" /\ todo[p] # <<>>
    /\ logCalls' = [logCalls EXCEPT ![p] = @ + 1]
    /\ todo' = [todo EXCEPT ![p] = Tail(@)]
    /\ LET pod == Head(todo[p]) IN
       \E o \in FetchOutcomes :
        CASE o = "ok" ->
               \E text \in LogTexts :
                   /\ logs_dict' = [logs_dict EXCEPT ![p] = Put(@, pod, text)]
                   /\ fetched' = [fetched EXCEPT ![p] = Put(@, pod, <<o, text>>)]
                   /\ Goto(p, "fetch")
          [] IsApiException(o) ->
               /\ logs_dict' = [logs_dict EXCEPT ![p] = Put(@, pod, LogErrorText)]
               /\ fetched' = [fetched EXCEPT ![p] = Put(@, pod, <<o, "">>)]
               /\ Goto(p, "fetch")
          [] OTHER ->
               /\ fetched' = [fetched EXCEPT ![p] = Put(@, pod, <<o, "">>)]
               /\ UNCHANGED logs_dict
               /\ LogsFetchOnException(p)
    /\ UNCHANGED <<cluster, req, reads, patches, podLists, answers,
                   since_seconds, history>>

\* the return after the loop
LogsReturn(p) ==
    /\ pc[p] = "fetch" /\ req[p].action = "logs" /\ todo[p] = <<>>
    /\ Return(p, LogsResult(p, TRUE, RetrievedMsg, logs_dict[p]), "")
    /\ UNCHANGED <<cluster, req, counters, answers, logVars, history>>

----------------------------------------------------------------------------
(* list_pods_in_namespace *)

\* a pod object of the cluster
PodObject(name) == [name |-> name, phase |-> "Running", pod_ip |-> None]

PodInfo(pod) == [name |-> pod.name, status |-> pod.phase, ip |-> pod.pod_ip]

\* except Exception as e: print and return []
ListPodsOnException(p) == Return(p, <<>>, ErrorMsg)

\* except client.rest.ApiException as e: print and return []
ListPodsOnApiException(p, o) ==
    IF Status(o) = NotFoundStatus
    THEN Return(p, <<>>, NamespaceMsg)
    ELSE Return(p, <<>>, ApiErrorMsg)

ListPodsConfig(p) ==
    /\ pc[p] = "config" /\ req[p].action = "list_pods"
    /\ IF ~kubeconfig
       THEN Return(p, <<>>, KubeconfigMsg)
       ELSE \E loaded \in BOOLEAN :
                IF loaded THEN Goto(p, "list") ELSE ListPodsOnException(p)
    /\ UNCHANGED <<cluster, req, counters, answers, logVars, history>>

\* v1.list_namespaced_pod and the formatting loop
ListPodsCall(p) ==
    /\ pc[p] = "list" /\ req[p].action = "list_pods"
    /\ podLists' = [podLists EXCEPT ![p] = @ + 1]
    /\ \E o \in Outcomes :
        /\ listOutcome' = [listOutcome EXCEPT ![p] = o]
        /\ CASE o = "ok" ->
               \E items \in PodLists :
                   Return(p, [i \in 1..Len(items) |-> PodInfo(PodObject(items[i]))], "")
             [] IsApiException(o) -> ListPodsOnApiException(p, o)
             [] OTHER -> ListPodsOnException(p)
    /\ UNCHANGED <<cluster, req, reads, patches, logCalls,
                   readOutcome, patchOutcomes, logVars, history>>

----------------------------------------------------------------------------
(* list_deployments_in_namespace *)

\* replica counts the cluster reports: absent (None), 0 or 1
Counts == {None, Some(0), Some(1)}

\* deployment objects: spec and status may be absent, and so may each count
\* (creation_timestamp and age_minutes, read off the wall clock, are left out)
DeploymentObjects ==
    {[name |-> "web", spec |-> sp, status |-> st] :
        sp \in {None} \cup {Some([replicas |-> r, images |-> <<"nginx">>]) : r \in Counts},
        st \in {None} \cup
               {Some([ready_replicas |-> r, available_replicas |-> a,
                      updated_replicas |-> r]) : r \in Counts, a \in Counts}}

\* a deployment with its one replica ready and available
OneReady ==
    [name |-> "db", spec |-> Some([replicas |-> Some(1), images |-> <<"redis">>]),
     status |-> Some([ready_replicas |-> Some(1), available_replicas |-> Some(1),
                      updated_replicas |-> Some(1)])]

\* deployment_list.items as the cluster answers it
DeploymentLists ==
    {<<>>} \cup {<<d>> : d \in DeploymentObjects}
           \cup {<<OneReady, d>> : d \in {x \in DeploymentObjects : x.spec = None}}

\* Python's "x or 0" on an Optional[int]
OrZero(x) == IF x = None \/ x = Some(0) THEN Some(0) ELSE x

\* the is_healthy expression
IsHealthy(ready_replicas, available_replicas, total_replicas) ==
    /\ ready_replicas # None
    /\ ready_replicas = total_replicas
    /\ available_replicas # None
    /\ available_replicas = total_replicas

\* the body of the formatting loop: one deployment_info
DeploymentInfo(d) ==
    LET total_replicas == IF d.spec # None THEN d.spec[1].replicas ELSE Some(0)
        ready_replicas == IF d.status # None THEN d.status[1].ready_replicas ELSE Some(0)
        available_replicas ==
            IF d.status # None THEN d.status[1].available_replicas ELSE Some(0)
        up_to_date_replicas ==
            IF d.status # None THEN d.status[1].updated_replicas ELSE Some(0)
        images == IF d.spec # None THEN d.spec[1].images ELSE <<>>
    IN [name |-> d.name,
        image |-> images,
        ready_replicas |-> OrZero(ready_replicas),
        total_replicas |-> total_replicas,
        available_replicas |-> OrZero(available_replicas),
        up_to_date_replicas |-> OrZero(up_to_date_replicas),
        is_healthy |-> IsHealthy(ready_replicas, available_replicas, total_replicas)]

\* except Exception as e: print and return []
ListDeploymentsOnException(p) == Return(p, <<>>, ErrorMsg)

\* except client.rest.ApiException as e: print and return []
ListDeploymentsOnApiException(p, o) ==
    IF Status(o) = NotFoundStatus
    THEN Return(p, <<>>, NamespaceMsg)
    ELSE Return(p, <<>>, ApiErrorMsg)

ListDeploymentsConfig(p) ==
    /\ pc[p] = "config" /\ req[p].action = "list_deployments"
    /\ IF ~kubeconfig
       THEN Return(p, <<>>, KubeconfigMsg)
       ELSE \E loaded \in BOOLEAN :
                IF loaded THEN Goto(p, "list") ELSE ListDeploymentsOnException(p)
    /\ UNCHANGED <<cluster, req, counters, answers, logVars, history>>

\* apps_v1.list_namespaced_deployment and the formatting loop
ListDeploymentsCall(p) ==
    /\ pc[p] = "list" /\ req[p].action = "list_deployments"
    /\ reads' = [reads EXCEPT ![p] = @ + 1]
    /\ \E o \in Outcomes :
        /\ listOutcome' = [listOutcome EXCEPT ![p] = o]
        /\ CASE o = "ok" ->
               \E items \in DeploymentLists :
                   Return(p, [i \in 1..Len(items) |-> DeploymentInfo(items[i])], "")
             [] IsApiException(o) -> ListDeploymentsOnApiException(p, o)
             [] OTHER -> ListDeploymentsOnException(p)
    /\ UNCHANGED <<cluster, req, patches, podLists, logCalls,
                   readOutcome, patchOutcomes, logVars, history>>

----------------------------------------------------------------------------
Next ==
    \E p \in Callers :
        \/ Invoke(p)
        \/ RestartConfig(p)
        \/ RestartRead(p)
        \/ RestartPatchIssue(p)
        \/ RestartPatchAnswer(p)
        \/ LogsConfig(p)
        \/ LogsRead(p)
        \/ LogsListPods(p)
        \/ LogsFetch(p)
        \/ LogsReturn(p)
        \/ ListPodsConfig(p)
        \/ ListPodsCall(p)
        \/ ListDeploymentsConfig(p)
        \/ ListDeploymentsCall(p)

Spec == Init /\ [][Next]_vars

----------------------------------------------------------------------------
(* The __main__ block of basicTools.py: one process, one command line.      *)

Script == "basicTools.py"

\* sys.argv: the script, then up to four arguments (namespaces and names that
\* are not numbers)
CommandLines ==
    {<<Script>>, <<Script, "--help">>, <<Script, "kube.yaml">>}
    \cup {<<Script, "kube.yaml", c>> :
            c \in {"list-pods", "list-deploy", "restart-deploy", "get-logs", "scale"}}
    \cup {<<Script, "kube.yaml", c, ns>> :
            c \in {"list-pods", "pods", "list-deploy", "deployments",
                   "restart-deploy", "get-logs", "scale"},
            ns \in {"default", "prod"}}
    \cup {<<Script, "kube.yaml", c, ns, d>> :
            c \in {"list-pods", "list-deploy", "restart-deploy", "restart",
                   "get-logs", "logs"},
            ns \in {"default", "prod"}, d \in {"web", "db"}}

\* sys.argv[i], counted from 0
Arg(a, i) == a[i + 1]

\* the parameters of each action, in order
Signature(action) ==
    CASE action = "list_pods" -> <<"ns">>
      [] action = "list_deployments" -> <<"ns">>
      [] action = "restart" -> <<"name", "ns">>
      [] action = "logs" -> <<"name", "ns", "hours", "tail">>

\* the defaults of the parameters
Defaults(action) ==
    [action |-> action, name |-> "", ns |-> "default", hours |-> 1, tail |-> None]

\* Python binds positional arguments to the parameters in order
Bind(action, args) ==
    [f \in DOMAIN Defaults(action) |->
        IF \E i \in 1..Len(args) : Signature(action)[i] = f
        THEN args[CHOOSE i \in 1..Len(args) : Signature(action)[i] = f]
        ELSE Defaults(action)[f]]

\* more positional arguments than parameters: TypeError
TooManyArguments(action, args) == Len(args) > Len(Signature(action))

\* the arguments of the get_deployment_logs call of the get-logs branch
LogsArguments(kubeconfig_arg, deployment_name, namespace) ==
    <<kubeconfig_arg, deployment_name, namespace>>

\* the call each branch of the dispatch makes: <<action, positional arguments>>,
\* or <<>> when the branch exits without a call
MainCall(a) ==
    LET kubeconfig_arg == IF Len(a) >= 2 THEN Arg(a, 1) ELSE ""
        command == IF Len(a) >= 3 THEN Arg(a, 2) ELSE ""
        namespace == IF Len(a) >= 4 THEN Arg(a, 3) ELSE "default"
        deployment_name == IF Len(a) >= 5 THEN Arg(a, 4) ELSE ""
    IN CASE \E i \in 1..Len(a) : a[i] \in {"--help", "-h"} -> <<>>
         [] kubeconfig_arg = "" \/ command = "" -> <<>>
         [] command \in {"list-pods", "pods"} ->
              <<"list_pods", <<kubeconfig_arg, namespace>> >>
         [] command \in {"list-deploy", "list-deployment", "deployments"} ->
              <<"list_deployments", <<kubeconfig_arg, namespace>> >>
         [] command \in {"restart-deploy", "restart"} ->
              IF deployment_name = "" THEN <<>>
              ELSE <<"restart", <<deployment_name, namespace>> >>
         [] command \in {"get-logs", "logs"} ->
              IF deployment_name = "" THEN <<>>
              ELSE <<"logs", LogsArguments(kubeconfig_arg, deployment_name, namespace)>>
         [] OTHER -> <<>>

\* sys.exit(0) for --help, sys.exit(1) for a usage error
MainExit(a) ==
    IF \E i \in 1..Len(a) : a[i] \in {"--help", "-h"} THEN "exit0" ELSE "exit1"

\* the block up to the call of an action
MainDispatch(p) ==
    /\ pc[p] = "idle" /\ argv[p] = <<>>
    /\ \E a \in CommandLines :
        /\ argv' = [argv EXCEPT ![p] = a]
        /\ LET call == MainCall(a) IN
           IF call = <<>>
           THEN /\ Goto(p, MainExit(a))
                /\ UNCHANGED <<req, patchFailuresLeft>>
           ELSE IF TooManyArguments(call[1], call[2])
           THEN /\ Propagate(p)
                /\ UNCHANGED <<req, patchFailuresLeft>>
           ELSE /\ Goto(p, "config")
                /\ req' = [req EXCEPT ![p] = Bind(call[1], call[2])]
                /\ \E k \in (IF call[1] = "restart" THEN 0..MaxFail ELSE {0}) :
                      patchFailuresLeft' = [patchFailuresLeft EXCEPT ![p] = k]
    /\ UNCHANGED <<kubeconfig, counters, answers, logVars,
                   concurrentAtStart, afterSuccess>>

\* the block after the call: the result is printed and the process ends
MainReport(p) ==
    /\ pc[p] = "done" /\ argv[p] # <<>>
    /\ pc' = [pc EXCEPT ![p] = "exit0"]
    /\ printed' = [printed EXCEPT ![p] =
          IF result[p].success THEN "Success" ELSE "Failed"]
    /\ UNCHANGED <<cluster, req, result, nReturned, counters, answers,
                   logVars, history>>

\* one run of the script (the list actions never start: their calls raise, and
\* the log loop is never entered: hours is a str)
NextMain ==
    \/ MainDispatch("c1")
    \/ MainReport("c1")
    \/ RestartConfig("c1")
    \/ RestartRead("c1")
    \/ RestartPatchIssue("c1")
    \/ RestartPatchAnswer("c1")
    \/ LogsConfig("c1")
    \/ LogsRead("c1")
    \/ LogsListPods("c1")

SpecMain == Init /\ [][NextMain]_vars

----------------------------------------------------------------------------
(* Properties *)

Done(p, action) == pc[p] = "done" /\ req[p].action = action

\* the transient failures the cluster had in store when the call began
StartBudget(p) ==
    patchFailuresLeft[p]
    + Cardinality({i \in 1..Len(patchOutcomes[p]) : patchOutcomes[p][i] = "api500"})

\* the pods the cluster listed for a log request
Matched(p) == DOMAIN fetched[p] \cup {todo[p][i] : i \in 1..Len(todo[p])}

C2_OneResult ==
    \A p \in Callers :
        /\ pc[p] # "escaped"
        /\ (pc[p] = "done" => nReturned[p] = 1)
        /\ (InProgress(p) => nReturned[p] = 0)

\* a log request in which a pod's fetch raised a non-API exception has returned
C2_Witness ==
    \E p \in Callers :
        /\ Done(p, "logs") /\ nReturned[p] = 1
        /\ \E pod \in DOMAIN fetched[p] : fetched[p][pod][1] = "other"

C4_NegativeArgsRejected ==
    \A p \in Callers :
        (/\ req[p].action = "logs"
         /\ \/ req[p].hours < 0
            \/ (req[p].tail # None /\ req[p].tail[1] < 0))
        => /\ reads[p] = 0 /\ podLists[p] = 0 /\ logCalls[p] = 0
           /\ (pc[p] = "done" => ~result[p].success)

(* C5: a log request whose deployment was read and whose pod list was not      *)
(* empty returns success=true with one entry per listed pod, whatever fetches  *)
(* failed: the pod's log text where the fetch succeeded, a non-empty error     *)
(* where it failed, and every listed pod was fetched.                          *)
C5_PartialFailureIsSuccess ==
    \A p \in Callers :
        (Done(p, "logs") /\ listOutcome[p] = "ok" /\ Matched(p) # {})
        => /\ result[p].success
           /\ DOMAIN result[p].logs = Matched(p)
           /\ logCalls[p] = Cardinality(Matched(p))
           /\ \A pod \in DOMAIN result[p].logs :
                 IF fetched[p][pod][1] = "ok"
                 THEN result[p].logs[pod] = fetched[p][pod][2]
                 ELSE result[p].logs[pod] # ""

(* C6: a restart patches only after its read of the deployment has succeeded,  *)
(* and a read answered NotFound ends the request with success=false and the    *)
(* not-found message, with no patch call and no second read.                   *)
C6_NotFoundEndsRestart ==
    \A p \in Callers :
        req[p].action = "restart"
        => /\ (patches[p] > 0 => readOutcome[p] = "ok")
           /\ reads[p] <= 1
           /\ (readOutcome[p] = "api404"
               => /\ pc[p] = "done"
                  /\ ~result[p].success
                  /\ result[p].message = NotFoundMsg
                  /\ patches[p] = 0
                  /\ reads[p] = 1)

\* a restart whose read was answered NotFound has returned
C6_Witness ==
    \E p \in Callers :
        Done(p, "restart") /\ readOutcome[p] = "api404" /\ ~result[p].success

(* C7: a log request whose deployment exists and whose pod list is empty       *)
(* returns success=false with an empty logs mapping and makes no pod log call. *)
C7_NoPodsFails ==
    \A p \in Callers :
        (Done(p, "logs") /\ readOutcome[p] = "ok" /\ listOutcome[p] = "ok"
         /\ Matched(p) = {})
        => /\ ~result[p].success
           /\ result[p].logs = EmptyDict
           /\ result[p].message = NoPodsMsg
           /\ logCalls[p] = 0

\* a log request has returned after the cluster listed no pod
C7_Witness ==
    \E p \in Callers :
        /\ Done(p, "logs") /\ readOutcome[p] = "ok" /\ listOutcome[p] = "ok"
        /\ Matched(p) = {} /\ podLists[p] = 1

(* C8: a restart requested after a restart of the same deployment has returned *)
(* success is treated like a first one: it issues its own patch call once its  *)
(* read has succeeded, and it succeeds exactly when that patch is acknowledged.*)
C8_RestartAgain ==
    \A p \in Callers :
        (Done(p, "restart") /\ afterSuccess[p])
        => /\ (readOutcome[p] = "ok" => patches[p] = 1)
           /\ (result[p].success <=> patchOutcomes[p] = <<"ok">>)
           /\ (result[p].success => reads[p] = 1)

\* a second restart of a deployment has succeeded with its own patch
C8_Witness ==
    \E p \in Callers :
        /\ Done(p, "restart") /\ afterSuccess[p]
        /\ result[p].success /\ patches[p] = 1

(* C9 as stated: no entry of a returned logs mapping is empty.                 *)
C9_NoEmptyEntry ==
    \A p \in Callers :
        Done(p, "logs")
        => \A pod \in DOMAIN result[p].logs : result[p].logs[pod] # ""

(* C9 amended: in a returned logs mapping, the entry of a pod whose fetch      *)
(* raised an API exception is a non-empty error text, and the entry of a pod   *)
(* whose fetch succeeded is the log text the cluster returned, which is empty  *)
(* when the pod produced no output.                                            *)
C9_EntryIsTextOrError ==
    \A p \in Callers :
        Done(p, "logs")
        => \A pod \in DOMAIN result[p].logs :
              /\ pod \in DOMAIN fetched[p]
              /\ IF fetched[p][pod][1] = "ok"
                 THEN result[p].logs[pod] = fetched[p][pod][2]
                 ELSE result[p].logs[pod] # ""

\* a returned mapping holds an empty entry beside an error entry
C9_Witness ==
    \E p \in Callers :
        /\ Done(p, "logs") /\ result[p].success
        /\ \E a \in DOMAIN result[p].logs, b \in DOMAIN result[p].logs :
              /\ result[p].logs[a] = "" /\ fetched[p][a][1] = "ok"
              /\ result[p].logs[b] # "" /\ fetched[p][b][1] = "api500"

(* C10: in every entry returned by list_deployments_in_namespace, is_healthy   *)
(* equals (ready_replicas == total_replicas and available_replicas ==          *)
(* total_replicas) on the counts of that entry.                                *)
C10_HealthyMatchesCounts ==
    \A p \in Callers :
        Done(p, "list_deployments")
        => \A i \in 1..Len(result[p]) :
              result[p][i].is_healthy =
                  (/\ result[p][i].ready_replicas = result[p][i].total_replicas
                   /\ result[p][i].available_replicas = result[p][i].total_replicas)

\* a finished list call that did not get an answer from the cluster
ListFailed(p) ==
    /\ pc[p] = "done" /\ req[p].action \in {"list_pods", "list_deployments"}
    /\ listOutcome[p] # "ok"

\* a finished list call the cluster answered
ListSucceeded(p) ==
    /\ pc[p] = "done" /\ req[p].action \in {"list_pods", "list_deployments"}
    /\ listOutcome[p] = "ok"

\* the failure of a finished restart or log request, "" when none
FailureKind(p) ==
    CASE ~kubeconfig -> KubeconfigMsg
      [] readOutcome[p] = "none" -> ErrorMsg
      [] readOutcome[p] = "api404" -> NotFoundMsg
      [] readOutcome[p] = "api500" -> ApiErrorMsg
      [] readOutcome[p] = "other" -> ErrorMsg
      [] patchOutcomes[p] # <<>> /\ patchOutcomes[p][1] = "api404" -> NotFoundMsg
      [] patchOutcomes[p] # <<>> /\ patchOutcomes[p][1] = "api500" -> ApiErrorMsg
      [] patchOutcomes[p] # <<>> /\ patchOutcomes[p][1] = "other" -> ErrorMsg
      [] listOutcome[p] = "api404" -> NotFoundMsg
      [] listOutcome[p] = "api500" -> ApiErrorMsg
      [] listOutcome[p] = "other" -> ErrorMsg
      [] \E pod \in DOMAIN fetched[p] : fetched[p][pod][1] = "other" -> ErrorMsg
      [] OTHER -> ""

(* C11: every failure of an action can be told from a success by its caller:   *)
(* a failed restart or log request returns success=false with the message of   *)
(* its failure kind, and a failed list call returns a value that no successful *)
(* list call of the same action returns.                                       *)
C11_FailuresDistinguishable ==
    /\ \A p \in Callers :
          (pc[p] = "done" /\ req[p].action \in {"restart", "logs"}
           /\ FailureKind(p) # "")
          => (~result[p].success /\ result[p].message = FailureKind(p))
    /\ \A p \in Callers, q \in Callers :
          (ListFailed(p) /\ ListSucceeded(q) /\ req[p].action = req[q].action)
          => result[p] # result[q]

(* C12: a result of get_deployment_logs with success=false has an empty logs   *)
(* mapping, on every failure path, also when the failure came after some pods' *)
(* logs had been collected.                                                    *)
C12_FailureHasNoLogs ==
    \A p \in Callers :
        (Done(p, "logs") /\ ~result[p].success)
        => result[p].logs = EmptyDict

\* a log request has failed after the loop had collected a pod's logs
C12_Witness ==
    \E p \in Callers :
        /\ Done(p, "logs") /\ ~result[p].success
        /\ logs_dict[p] # EmptyDict
        /\ result[p].logs = EmptyDict

\* what the help text says of a command line: the action its command names
HelpAction(a) ==
    CASE Arg(a, 2) \in {"list-pods", "pods"} -> "list_pods"
      [] Arg(a, 2) \in {"list-deploy", "list-deployment", "deployments"} ->
           "list_deployments"
      [] Arg(a, 2) \in {"restart-deploy", "restart"} -> "restart"
      [] Arg(a, 2) \in {"get-logs", "logs"} -> "logs"
      [] OTHER -> "none"

\* a command line with a known command and the arguments the command requires
WellFormed(a) ==
    /\ Len(a) >= 3
    /\ \A i \in 1..Len(a) : a[i] \notin {"--help", "-h"}
    /\ HelpAction(a) # "none"
    /\ (HelpAction(a) \in {"restart", "logs"} => Len(a) >= 5)

(* C13: for a well-formed command line, the script calls the action its        *)
(* command names, with the namespace of the third argument ('default' when     *)
(* absent) and, for restart-deploy and get-logs, the deployment name of the    *)
(* fourth; the call does not raise.                                            *)
C13_DispatchFollowsHelp ==
    \A p \in Callers :
        (argv[p] # <<>> /\ WellFormed(argv[p]))
        => /\ pc[p] # "escaped"
           /\ req[p].action = HelpAction(argv[p])
           /\ req[p].ns = (IF Len(argv[p]) >= 4 THEN Arg(argv[p], 3) ELSE "default")
           /\ (req[p].action \in {"restart", "logs"}
               => req[p].name = Arg(argv[p], 4))

====
